---- MODULE Spec2Model ----
(***************************************************************************)
(* Model of the two notebooks of src/variational_circuits.ipynb:           *)
(*   - "Classical Logic Gates with quantum circuits" (NOT, XOR, AND, NAND, *)
(*     OR, FANOUT built from x and cx and run on the qasm simulator);      *)
(*   - the QAOA notebook (Hamiltonians, create_circuit, evaluate_circuit   *)
(*     and the scipy minimize call).                                       *)
(* A notebook is a kernel namespace filled cell by cell; a cell that does  *)
(* not compile, or that raises, binds nothing from the failing statement   *)
(* on.  A quantum state is modelled by its support: the set of basis       *)
(* states with nonzero amplitude.  x and cx permute basis states, a        *)
(* measurement picks one basis state of the support.                       *)
(***************************************************************************)
EXTENDS Integers, Sequences, FiniteSets, TLC

\* ------------------------------------------------------------------ bounds
\* number of gate-function calls made in one kernel session
MaxCalls == 3

\* largest n_qubits pauli_x and pauli_z are called with
MaxQubits == 3

\* ------------------------------------------------------- logic-gate kernel
VARIABLES
    lcell,      \* index of the next cell of the logic-gates notebook to run
    defined,    \* names bound in the logic-gates kernel
    cellError,  \* error raised by the last cell run ("" when none)
    pc,         \* "idle" | "run": position of the gate function being called
    fn,         \* function being called
    in1, in2,   \* its arguments (in2 = "-" for a one-argument function)
    qc,         \* the QuantumCircuit built by the call: sequence of instructions
    nq, nc,     \* sizes of the QuantumRegister and ClassicalRegister of the call
    state,      \* simulator state: support of the state vector
    creg,       \* simulator classical register
    ip,         \* next instruction of qc the simulator applies
    history     \* results of the completed calls, in call order

\* ------------------------------------------------------------- QAOA kernel
VARIABLES
    qcell,      \* index of the next cell of the QAOA notebook to run
    ns,         \* names bound in the QAOA kernel
    qError,     \* exception raised by the last cell run ("" when none)
    qMissing,   \* the name a NameError of the last cell run is about
    beta, gamma,\* the initial angles drawn by np.random.uniform (Unset before)
    optimizer,  \* where the minimize call stands
    nfev,       \* number of objective evaluations of the minimize call
    xk,         \* parameter vector the optimizer evaluates
    outcome,    \* how the minimize call ended: "pending", "returned", "raised"
    ham,        \* the operators bound to identity, Hm and Hc (<<>>: unbound)
    circuit_init, \* the circuit bound to circuit_init
    lastCircuit,\* what the last call of create_circuit gave
    fval,       \* what the last call of evaluate_circuit gave
    result      \* the OptimizeResult bound to result

\* ------------------------------------------- calls of pauli_x and pauli_z
VARIABLES
    pfn,        \* the function called: "pauli_x" or "pauli_z" ("" before the call)
    pn,         \* argument n_qubits
    pidx,       \* argument qubit_index
    pcoeff,     \* argument coeff
    pres        \* what the call gave: exception raised and operator returned

pvars == <<pfn, pn, pidx, pcoeff, pres>>

qvars == <<qcell, ns, qError, qMissing, beta, gamma, optimizer, nfev, xk, outcome,
           ham, circuit_init, lastCircuit, fval, result>>

gvars == <<lcell, defined, cellError, pc, fn, in1, in2, qc, nq, nc, state,
           creg, ip, history>>

Bits == {"0", "1"}
NoArg == "-"

\* the six gate functions of the notebook
GateNames == {"NOT", "XOR", "AND", "NAND", "OR", "FANOUT"}
Unary == {"NOT", "FANOUT"}

\* The code cells of the logic-gates notebook, in notebook order: the names a
\* cell binds and whether its source compiles.  The AND and NAND cells hold
\* `if input1=="1" AND` / `if input1=="1" OR` followed by a line break and an
\* empty if-body: a SyntaxError, so the def statement never runs.
LogicCells ==
    << [binds |-> {"QuantumRegister", "ClassicalRegister", "QuantumCircuit",
                   "Aer", "execute", "np"},  compiles |-> TRUE],
       [binds |-> {"NOT"},    compiles |-> TRUE],
       [binds |-> {"XOR"},    compiles |-> TRUE],
       [binds |-> {"AND"},    compiles |-> FALSE],
       [binds |-> {"NAND"},   compiles |-> FALSE],
       [binds |-> {"OR"},     compiles |-> TRUE],
       [binds |-> {"FANOUT"}, compiles |-> TRUE] >>

\* ---------------------------------------------------- circuit instructions
Instr(op, a, b, c, cb) == [op |-> op, a |-> a, b |-> b, c |-> c, cb |-> cb]

\* a circuit under construction: the instructions so far and the exception
\* raised while building ("" when none)
EmptyCircuit == [ins |-> <<>>, raised |-> ""]

\* QuantumCircuit.x(q): one qubit argument
x(circ, args) ==
    IF circ.raised # "" THEN circ
    ELSE IF Len(args) # 1 THEN [circ EXCEPT !.raised = "TypeError"]
    ELSE [circ EXCEPT !.ins = Append(@, Instr("x", args[1], -1, -1, -1))]

\* QuantumCircuit.cx(ctl, tgt): exactly two qubit arguments
cx(circ, args) ==
    IF circ.raised # "" THEN circ
    ELSE IF Len(args) # 2 THEN [circ EXCEPT !.raised = "TypeError"]
    ELSE [circ EXCEPT !.ins = Append(@, Instr("cx", args[1], args[2], -1, -1))]

\* QuantumCircuit.measure(qubit, cbit)
measure(circ, q, cb) ==
    IF circ.raised # "" THEN circ
    ELSE [circ EXCEPT !.ins = Append(@, Instr("measure", q, -1, -1, cb))]

\* -------------------------------------------------- the gate function bodies
\* NOT without the final x: the encoded input is measured as it is
NOT_body_noflip(input) ==
    LET c0 == EmptyCircuit
        c1 == IF input = "1" THEN x(c0, <<0>>) ELSE c0
    IN  [nq |-> 1, nc |-> 1, circ |-> measure(c1, 0, 0)]

NOT_body(input) ==
    LET c0 == EmptyCircuit
        c1 == IF input = "1" THEN x(c0, <<0>>) ELSE c0
        c2 == x(c1, <<0>>)
    IN  [nq |-> 1, nc |-> 1, circ |-> measure(c2, 0, 0)]

\* XOR with the encoding test inverted (== for !=)
XOR_body_eq(input1, input2) ==
    LET c0 == EmptyCircuit
        c1 == IF input1 = input2 THEN x(c0, <<0>>) ELSE c0
        c2 == cx(c1, <<0, 1>>)
    IN  [nq |-> 2, nc |-> 1, circ |-> measure(c2, 1, 0)]

XOR_body(input1, input2) ==
    LET c0 == EmptyCircuit
        c1 == IF input1 # input2 THEN x(c0, <<0>>) ELSE c0
        c2 == cx(c1, <<0, 1>>)
    IN  [nq |-> 2, nc |-> 1, circ |-> measure(c2, 1, 0)]

OR_body(input1, input2) ==
    LET c0 == EmptyCircuit
        c1 == IF input1 # "0" \/ input2 # "0" THEN x(c0, <<0>>) ELSE c0
        c2 == cx(c1, <<0, 1, 2>>)
    IN  [nq |-> 3, nc |-> 1, circ |-> measure(c2, 2, 0)]

FANOUT_body(input) ==
    [nq |-> 3, nc |-> 2, circ |-> EmptyCircuit]

\* the body of a function that is bound in the kernel
Body(f, a, b) ==
    CASE f = "NOT"    -> NOT_body(a)
      [] f = "XOR"    -> XOR_body(a, b)
      [] f = "OR"     -> OR_body(a, b)
      [] f = "FANOUT" -> FANOUT_body(a)

\* ------------------------------------------------------------ the simulator
BasisStates(n) == [0 .. n - 1 -> {0, 1}]

\* all qubits |0>
ZeroState(n) == {[q \in 0 .. n - 1 |-> 0]}

\* a simulator that keeps the state vector of the previous run when it fits
FreshState_stale(n, old) == IF old \subseteq BasisStates(n) THEN old ELSE ZeroState(n)

\* a run starts from a state vector of its own
FreshState(n, old) == ZeroState(n)

ZeroCreg(n) == [b \in 0 .. n - 1 |-> 0]

Flip(s, q) == [s EXCEPT ![q] = 1 - @]

\* a Hadamard in place of the x: both values of the qubit get amplitude
ApplyX_asH(S, q) == S \cup {Flip(s, q) : s \in S}

ApplyX(S, q) == {Flip(s, q) : s \in S}

\* a cx that loses the amplitude of the states whose control is 0
ApplyCX_drop(S, ctl, tgt) == {Flip(s, tgt) : s \in {t \in S : t[ctl] = 1}}

ApplyCX(S, ctl, tgt) == {IF s[ctl] = 1 THEN Flip(s, tgt) ELSE s : s \in S}

ApplyGate(S, i) ==
    CASE i.op = "x"  -> ApplyX(S, i.a)
      [] i.op = "cx" -> ApplyCX(S, i.a, i.b)

BitChar(v) == IF v = 1 THEN "1" ELSE "0"

RECURSIVE BitStr(_, _)
\* the key of get_counts() / the entry of get_memory(): the classical bits
\* written from the highest index down to bit 0
BitStr(cr, n) == IF n = 0 THEN "" ELSE BitChar(cr[n - 1]) \o BitStr(cr, n - 1)

\* -------------------------------------------------------------------- Init
GInit ==
    /\ lcell = 1
    /\ defined = {}
    /\ cellError = ""
    /\ pc = "idle"
    /\ fn = "" /\ in1 = NoArg /\ in2 = NoArg
    /\ qc = <<>> /\ nq = 1 /\ nc = 1
    /\ state = ZeroState(1)
    /\ creg = ZeroCreg(1)
    /\ ip = 1
    /\ history = <<>>

\* ----------------------------------------------------------------- actions
\* run the next cell of the logic-gates notebook
RunLogicCell ==
    /\ lcell <= Len(LogicCells)
    /\ pc = "idle"
    /\ LET cell == LogicCells[lcell] IN
         IF cell.compiles
         THEN defined' = defined \cup cell.binds /\ cellError' = ""
         ELSE defined' = defined /\ cellError' = "SyntaxError"
    /\ lcell' = lcell + 1
    /\ UNCHANGED <<pc, fn, in1, in2, qc, nq, nc, state, creg, ip, history>>

Done(f, a, b, out) == [fn |-> f, in1 |-> a, in2 |-> b, out |-> out]

\* call gate function f: the body up to and including the start of execute()
Call(f, a, b) ==
    /\ lcell > Len(LogicCells)
    /\ pc = "idle"
    /\ Len(history) < MaxCalls
    /\ fn' = f /\ in1' = a /\ in2' = b
    /\ IF f \notin defined
       THEN /\ history' = Append(history, Done(f, a, b, "NameError"))
            /\ UNCHANGED <<pc, qc, nq, nc, state, creg, ip>>
       ELSE LET r == Body(f, a, b) IN
            IF r.circ.raised # ""
            THEN /\ history' = Append(history, Done(f, a, b, r.circ.raised))
                 /\ UNCHANGED <<pc, qc, nq, nc, state, creg, ip>>
            ELSE /\ pc' = "run"
                 /\ qc' = r.circ.ins /\ nq' = r.nq /\ nc' = r.nc
                 /\ state' = FreshState(r.nq, state)
                 /\ creg' = ZeroCreg(r.nc)
                 /\ ip' = 1
                 /\ UNCHANGED history
    /\ UNCHANGED <<lcell, defined, cellError>>

\* the simulator applies the next instruction of the circuit
SimStep ==
    /\ pc = "run"
    /\ ip <= Len(qc)
    /\ LET i == qc[ip] IN
         IF i.op = "measure"
         THEN \E s \in state :
                /\ state' = {t \in state : t[i.a] = s[i.a]}
                /\ creg' = [creg EXCEPT ![i.cb] = s[i.a]]
         ELSE /\ state' = ApplyGate(state, i)
              /\ creg' = creg
    /\ ip' = ip + 1
    /\ UNCHANGED <<lcell, defined, cellError, pc, fn, in1, in2, qc, nq, nc, history>>

\* the single shot is over: the function returns the classical register
Return ==
    /\ pc = "run"
    /\ ip > Len(qc)
    /\ history' = Append(history, Done(fn, in1, in2, BitStr(creg, nc)))
    /\ pc' = "idle"
    /\ UNCHANGED <<lcell, defined, cellError, fn, in1, in2, qc, nq, nc, state, creg, ip>>

\* ------------------------------------------------------------ QAOA notebook
\* number of values np.random.uniform(0, 2*pi, p) is drawn from
AngleSteps == 4

Angles == 0 .. AngleSteps - 1
Unset == -1

\* Free (global) names a function body looks up, in evaluation order, on the
\* path the notebook's calls take.
PauliXRefs == <<"np", "np", "Pauli", "WeightedPauliOperator", "Pauli">>

ProductPauliZRefs ==
    <<"np", "n_qubits", "np", "n_qubits", "np", "n_qubits", "Pauli", "p1",
      "Pauli", "p2", "WeightedPauliOperator", "Pauli">>

\* sum([evolve(Hc, beta[i], qr) + evolve(Hm, gamma[i], qr) for i in range(p)],
\*     circuit_init)
CreateCircuitRefs ==
    <<"p", "evolve", "Hc", "qr", "evolve", "Hm", "qr", "circuit_init">>

EvaluateCircuitRefs == <<"create_circuit">> \o CreateCircuitRefs

Stmt(needs, binds) == [needs |-> needs, binds |-> binds]

\* The code cells of the QAOA notebook, in notebook order; a cell is the
\* sequence of its statements, a statement the names it looks up (callee
\* bodies included) and the names it binds when it completes.
QaoaCells ==
    << << Stmt(<<>>, {"itertools", "np", "Aer", "QuantumRegister", "QuantumCircuit",
                      "execute", "Pauli", "Operator", "get_aer_backend",
                      "WeightedPauliOperator", "Custom", "minimize"}) >>,
       << Stmt(<<>>, {"pauli_x"}) >>,
       << Stmt(<<>>, {"n_qubits"}),
          Stmt(<<"pauli_x", "n_qubits">> \o PauliXRefs, {"identity"}),
          Stmt(<<"n_qubits", "pauli_x", "n_qubits">> \o PauliXRefs \o <<"identity">>,
               {"Hm"}) >>,
       << Stmt(<<>>, {"pauli_z"}) >>,
       << Stmt(<<>>, {"product_pauli_z"}) >>,
       << Stmt(<<"np">>, {"J"}),
          Stmt(<<"itertools", "n_qubits", "product_pauli_z", "J">>
                  \o ProductPauliZRefs \o <<"identity">>, {"Hc"}) >>,
       << Stmt(<<>>, {"p"}),
          Stmt(<<"np", "np", "p">>, {"beta"}),
          Stmt(<<"np", "np", "p">>, {"gamma"}) >>,
       << Stmt(<<"QuantumRegister", "n_qubits">>, {"qub"}),
          Stmt(<<"QuantumCircuit", "qub">>, {"circuit_init"}) >>,
       << Stmt(<<>>, {"evolve"}) >>,
       << Stmt(<<>>, {"create_circuit"}) >>,
       << Stmt(<<>>, {"evaluate_circuit"}) >>,
       << Stmt(<<"minimize", "evaluate_circuit", "np", "beta", "gamma">>, {"result"}),
          Stmt(<<"result">>, {}) >>,
       << Stmt(<<"create_circuit", "result", "p", "result", "p">> \o CreateCircuitRefs,
               {"circuit"}),
          Stmt(<<"circuit">>, {}) >>,
       << Stmt(<<"Aer">>, {"backend"}),
          Stmt(<<"execute", "circuit", "backend">>, {"job"}),
          Stmt(<<"np", "job", "circuit">>, {"state"}),
          Stmt(<<"np", "state">>, {}),
          Stmt(<<"np", "state">>, {}) >> >>

ParamCell == 7
MinimizeCell == 12

RECURSIVE FirstMissing(_, _)
\* the first name of refs that is not bound in names ("" when all are)
FirstMissing(refs, names) ==
    IF refs = <<>> THEN ""
    ELSE IF Head(refs) \notin names THEN Head(refs)
    ELSE FirstMissing(Tail(refs), names)

RECURSIVE RunStatements(_, _)
\* run the statements of a cell one after the other in namespace names; the
\* first statement whose lookup fails raises NameError and ends the cell
RunStatements(stmts, names) ==
    IF stmts = <<>> THEN [ns |-> names, raised |-> "", missing |-> ""]
    ELSE LET m == FirstMissing(Head(stmts).needs, names) IN
         IF m # "" THEN [ns |-> names, raised |-> "NameError", missing |-> m]
         ELSE RunStatements(Tail(stmts), names \cup Head(stmts).binds)

\* evaluate_circuit(beta_gamma): unpacks the vector, builds the circuit and
\* falls off its end, so a call that does not raise returns None
evaluate_circuit(names, beta_gamma) ==
    IF Len(beta_gamma) # 2
    THEN [raised |-> "ValueError", missing |-> "", value |-> "None"]
    ELSE LET m == FirstMissing(EvaluateCircuitRefs, names) IN
         IF m # "" THEN [raised |-> "NameError", missing |-> m, value |-> "None"]
         ELSE [raised |-> "", missing |-> "", value |-> "None"]

\* ------------------------------------------------ Pauli operators (QAOA)
\* np.zeros(n)
Zeros(n) == [q \in 0 .. n - 1 |-> 0]

\* The position a[i] of a numpy array of length n refers to: Python counts
\* a negative index from the end; an index outside [-n, n) is an IndexError
\* (reported here as -1).
ArrayIndex(n, i) ==
    IF 0 <= i /\ i < n THEN i
    ELSE IF -n <= i /\ i < 0 THEN n + i
    ELSE -1

\* Pauli(z, x): the first argument is the z-vector, the second the x-vector
Pauli(z, xv) == [z |-> z, x |-> xv]

Term(coeff, pauli) == [coeff |-> coeff, pauli |-> pauli]

\* WeightedPauliOperator(paulis): keeps the list of [coeff, Pauli] it is given
WeightedPauliOperator(paulis) == [raised |-> "", missing |-> "", terms |-> paulis]

Raise(exc, name) == [raised |-> exc, missing |-> name, terms |-> <<>>]

\* pauli_x that marks the qubit in the first (z) vector, as pauli_z does
pauli_x_onZ(n_qubits, qubit_index, coeff) ==
    LET k == ArrayIndex(n_qubits, qubit_index) IN
    IF k = -1 THEN Raise("IndexError", "")
    ELSE LET xr == [Zeros(n_qubits) EXCEPT ![k] = @ + 1]
             yr == Zeros(n_qubits)
             pauli == Pauli(xr, yr)
         IN  WeightedPauliOperator(<<Term(0, Pauli(xr, yr)), Term(coeff, pauli)>>)

pauli_x(n_qubits, qubit_index, coeff) ==
    LET k == ArrayIndex(n_qubits, qubit_index) IN
    IF k = -1 THEN Raise("IndexError", "")
    ELSE LET xr == Zeros(n_qubits)
             yr == [Zeros(n_qubits) EXCEPT ![k] = @ + 1]
             pauli == Pauli(xr, yr)
         IN  WeightedPauliOperator(<<Term(0, Pauli(xr, yr)), Term(coeff, pauli)>>)

\* global names pauli_z looks up after the index assignment: `pauli` is a
\* local of pauli_x and is bound in the kernel by no cell
PauliZRefs == <<"Pauli", "WeightedPauliOperator", "pauli", "Pauli">>

\* pauli_z called in a kernel where names are bound
pauli_z(names, n_qubits, qubit_index, coeff) ==
    LET k == ArrayIndex(n_qubits, qubit_index)
        m == FirstMissing(PauliZRefs, names)
    IN  IF k = -1 THEN Raise("IndexError", "")
        ELSE IF m # "" THEN Raise("NameError", m)
        ELSE LET yr == Zeros(n_qubits) IN
             WeightedPauliOperator(<<Term(coeff, "pauli"), Term(0, Pauli(yr, yr))>>)

RECURSIVE BoundBy(_)
\* the names the statements stmts bind
BoundBy(stmts) ==
    IF stmts = <<>> THEN {} ELSE Head(stmts).binds \cup BoundBy(Tail(stmts))

\* every name some cell of the QAOA notebook binds
AllBound == UNION {BoundBy(QaoaCells[c]) : c \in DOMAIN QaoaCells}

Coeffs == {-1, 0, 1}

PIdle ==
    /\ pfn = ""
    /\ pn = 1 /\ pidx = 0 /\ pcoeff = 0
    /\ pres = Raise("", "")

\* the arguments of the call
PauliInit ==
    /\ pfn = ""
    /\ pn \in 1 .. MaxQubits
    /\ pidx \in -(MaxQubits + 1) .. MaxQubits + 1
    /\ pcoeff \in Coeffs
    /\ pres = Raise("", "")

CallPauliX ==
    /\ pfn = ""
    /\ pfn' = "pauli_x"
    /\ pres' = pauli_x(pn, pidx, pcoeff)
    /\ UNCHANGED <<pn, pidx, pcoeff>>

CallPauliZ ==
    /\ pfn = ""
    /\ pfn' = "pauli_z"
    /\ pres' = pauli_z(AllBound, pn, pidx, pcoeff)
    /\ UNCHANGED <<pn, pidx, pcoeff>>

\* ------------------------------------------- Hamiltonians and the circuit
\* n_qubits = 2
n_qubits == 2

\* p = 1
p == 1

\* J = np.array([[0,1],[0,0]]), rows and columns counted from 0
J == [i \in 0 .. 1 |-> [j \in 0 .. 1 |-> IF i = 0 /\ j = 1 THEN 1 ELSE 0]]

HmCell == 3
HcCell == 6
InitCell == 8

\* the last term of terms that carries the Pauli string P (0 when none)
LastIndexOf(terms, P) ==
    LET K == {k \in DOMAIN terms : terms[k].pauli = P} IN
    IF K = {} THEN 0 ELSE CHOOSE k \in K : \A l \in K : l <= k

RECURSIVE AddTerms(_, _)
\* WeightedPauliOperator + WeightedPauliOperator: a term of the right operand
\* is added to the coefficient of the term with its Pauli string, or appended
AddTerms(terms, other) ==
    IF other = <<>> THEN terms
    ELSE LET t == Head(other)
             k == LastIndexOf(terms, t.pauli)
         IN  AddTerms(IF k = 0 THEN Append(terms, t)
                      ELSE [terms EXCEPT ![k].coeff = @ + t.coeff],
                      Tail(other))

RECURSIVE SumOps(_, _)
\* sum(ops, start): start + ops[1] + ops[2] + ...
SumOps(ops, start) ==
    IF ops = <<>> THEN start ELSE SumOps(Tail(ops), AddTerms(start, Head(ops)))

\* product_pauli_z(q1, q2, coeff) called in a kernel where names are bound:
\* p1 and p2 are read as globals; the operator returned is the product of
\* the Paulis built from them
product_pauli_z(names, q1, q2, coeff) ==
    LET m == FirstMissing(ProductPauliZRefs, names) IN
    IF m # "" THEN Raise("NameError", m)
    ELSE WeightedPauliOperator(<<Term(coeff, "p1*p2"), Term(0, "zero")>>)

\* itertools.product(range(n_qubits), repeat=2)
IndexPairs == <<<<0, 0>>, <<0, 1>>, <<1, 0>>, <<1, 1>>>>

\* [product_pauli_z(i, j, -J[i,j]) for i,j in ...]
HcList(names) ==
    [k \in DOMAIN IndexPairs |->
        product_pauli_z(names, IndexPairs[k][1], IndexPairs[k][2],
                        -J[IndexPairs[k][1]][IndexPairs[k][2]])]

\* the values the Hm cell binds
IdentityValue == pauli_x(n_qubits, 0, 0).terms

HmValue ==
    SumOps([k \in 1 .. n_qubits |-> pauli_x(n_qubits, k - 1, -1).terms], IdentityValue)

\* qub = QuantumRegister(n_qubits); circuit_init = QuantumCircuit(qub)
CircuitInitValue == [bound |-> TRUE, nq |-> n_qubits, ins |-> <<>>]

\* evolve(hamiltonian, angle, qr): one evolution block; h names the
\* Hamiltonian, arg the parameter list the angle is taken from
Evolve(h, arg, step, angle) == [h |-> h, arg |-> arg, step |-> step, angle |-> angle]

InitBlock == [h |-> "circuit_init", arg |-> "", step |-> -1, angle |-> 0]

RECURSIVE EvolutionBlocks(_, _, _)
\* [evolve(Hc, beta[i], qr) + evolve(Hm, gamma[i], qr) for i in range(p)],
\* from step i on, one after the other
EvolutionBlocks(b, g, i) ==
    IF i >= p THEN <<>>
    ELSE <<Evolve("Hc", "beta", i, b[i + 1]), Evolve("Hm", "gamma", i, g[i + 1])>>
         \o EvolutionBlocks(b, g, i + 1)

\* create_circuit(beta, gamma) called in a kernel where names are bound
create_circuit(names, b, g) ==
    LET m == FirstMissing(CreateCircuitRefs, names) IN
    IF m # ""
    THEN [called |-> TRUE, raised |-> "NameError", missing |-> m, blocks |-> <<>>]
    ELSE [called |-> TRUE, raised |-> "", missing |-> "",
          blocks |-> <<InitBlock>> \o EvolutionBlocks(b, g, 0)]

QInit ==
    /\ qcell = 1
    /\ ns = {}
    /\ qError = "" /\ qMissing = ""
    /\ beta = Unset /\ gamma = Unset
    /\ optimizer = "none"
    /\ nfev = 0
    /\ xk = <<>>
    /\ outcome = "pending"
    /\ ham = [identity |-> <<>>, Hm |-> <<>>, Hc |-> <<>>]
    /\ circuit_init = [bound |-> FALSE, nq |-> 0, ins |-> <<>>]
    /\ lastCircuit = [called |-> FALSE, raised |-> "", missing |-> "", blocks |-> <<>>]
    /\ fval = [called |-> FALSE, raised |-> "", value |-> "None"]
    /\ result = [bound |-> FALSE, funMilli |-> 0, x |-> <<>>]

\* run the next cell of the QAOA notebook (any cell but the two below)
RunQaoaCell ==
    /\ qcell <= Len(QaoaCells)
    /\ qcell \notin {ParamCell, MinimizeCell}
    /\ LET r == RunStatements(QaoaCells[qcell], ns) IN
         /\ ns' = r.ns
         /\ qError' = r.raised
         /\ qMissing' = r.missing
    /\ ham' = IF qcell = HmCell /\ "Hm" \in ns'
               THEN [ham EXCEPT !.identity = IdentityValue, !.Hm = HmValue]
               ELSE IF qcell = HcCell /\ "Hc" \in ns'
               THEN [ham EXCEPT !.Hc =
                        SumOps([k \in DOMAIN IndexPairs |-> HcList(ns)[k].terms],
                               ham.identity)]
               ELSE ham
    /\ circuit_init' = IF qcell = InitCell /\ "circuit_init" \in ns'
                        THEN CircuitInitValue ELSE circuit_init
    /\ qcell' = qcell + 1
    /\ UNCHANGED <<beta, gamma, optimizer, nfev, xk, outcome, lastCircuit, fval, result>>

\* the cell that sets p = 1 and draws beta and gamma at random
RunParamCell ==
    /\ qcell = ParamCell
    /\ LET r == RunStatements(QaoaCells[qcell], ns) IN
         /\ ns' = r.ns
         /\ qError' = r.raised
         /\ qMissing' = r.missing
         /\ IF r.raised = ""
            THEN \E b \in Angles : \E g \in Angles : beta' = b /\ gamma' = g
            ELSE UNCHANGED <<beta, gamma>>
    /\ qcell' = qcell + 1
    /\ UNCHANGED <<optimizer, nfev, xk, outcome, ham, circuit_init, lastCircuit,
                   fval, result>>

\* result = minimize(evaluate_circuit, np.concatenate([beta, gamma]), ...):
\* the arguments are evaluated and the optimizer starts at x0
MinimizeStart ==
    /\ qcell = MinimizeCell
    /\ optimizer = "none"
    /\ outcome = "pending"
    /\ LET m == FirstMissing(QaoaCells[qcell][1].needs, ns) IN
         IF m # ""
         THEN /\ qError' = "NameError" /\ qMissing' = m
              /\ outcome' = "raised"
              /\ qcell' = qcell + 1
              /\ UNCHANGED <<optimizer, xk>>
         ELSE /\ optimizer' = "Initialized"
              /\ xk' = <<beta, gamma>>
              /\ UNCHANGED <<qError, qMissing, outcome, qcell>>
    /\ UNCHANGED <<ns, beta, gamma, nfev, ham, circuit_init, lastCircuit, fval, result>>

\* the optimizer calls the objective at xk
MinimizeEvaluate ==
    /\ qcell = MinimizeCell
    /\ optimizer = "Initialized"
    /\ optimizer' = "Evaluating"
    /\ nfev' = nfev + 1
    /\ UNCHANGED <<qcell, ns, qError, qMissing, beta, gamma, xk, outcome, ham,
                   circuit_init, lastCircuit, fval, result>>

\* The objective call comes back.  An exception of the objective propagates
\* through minimize to the cell; a None is not a number the optimizer can
\* use (TypeError).  evaluate_circuit has no return statement, so there is
\* no other case: result is never bound.
ObjectiveDone ==
    /\ qcell = MinimizeCell
    /\ optimizer = "Evaluating"
    /\ LET r == evaluate_circuit(ns, xk) IN
         /\ qError' = IF r.raised # "" THEN r.raised ELSE "TypeError"
         /\ qMissing' = r.missing
         /\ fval' = [called |-> TRUE, raised |-> r.raised, value |-> r.value]
    /\ lastCircuit' = IF Len(xk) = 2 /\ "create_circuit" \in ns
                       THEN create_circuit(ns, <<xk[1]>>, <<xk[2]>>)
                       ELSE lastCircuit
    /\ optimizer' = "Raised"
    /\ outcome' = "raised"
    /\ qcell' = qcell + 1
    /\ UNCHANGED <<ns, beta, gamma, nfev, xk, ham, circuit_init, result>>

\* ------------------------------------------------------------- properties
Entries(f) == {k \in DOMAIN history : history[k].fn = f}

\* the call ran on the simulator and returned a bit string
Ran(h) == h.out \notin {"NameError", "TypeError"}

BoolBit(v) == IF v THEN "1" ELSE "0"

\* C1: every completed call NOT(input) with input in {'0','1'} returned the
\* opposite bit: NOT('0') = '1' and NOT('1') = '0'.
C1_NotOpposite ==
    \A k \in Entries("NOT") : history[k].out = BoolBit(history[k].in1 = "0")

C1_Witness ==
    /\ \E k \in Entries("NOT") : history[k].in1 = "0" /\ history[k].out = "1"
    /\ \E k \in Entries("NOT") : history[k].in1 = "1" /\ history[k].out = "0"

\* C2: every completed call XOR(input1, input2) returned '0' when the inputs
\* are equal and '1' otherwise.
C2_XorTruthTable ==
    \A k \in Entries("XOR") :
        history[k].out = BoolBit(history[k].in1 # history[k].in2)

C2_Witness ==
    /\ \E k \in Entries("XOR") :
         history[k].in1 = "1" /\ history[k].in2 = "0" /\ history[k].out = "1"
    /\ \E k \in Entries("XOR") :
         history[k].in1 = "1" /\ history[k].in2 = "1" /\ history[k].out = "0"

\* C3: every completed call AND(input1, input2) returned '1' when both inputs
\* are '1' and '0' for the other three input combinations.
C3_AndTruthTable ==
    \A k \in Entries("AND") :
        history[k].out = BoolBit(history[k].in1 = "1" /\ history[k].in2 = "1")

\* C4: every completed call NAND(input1, input2) returned '0' when both inputs
\* are '1' and '1' for the other three input combinations.
C4_NandTruthTable ==
    \A k \in Entries("NAND") :
        history[k].out = BoolBit(~(history[k].in1 = "1" /\ history[k].in2 = "1"))

\* C5: every completed call OR(input1, input2) returned '1' when either input
\* is '1' and '0' when both are '0'.
C5_OrTruthTable ==
    \A k \in Entries("OR") :
        history[k].out = BoolBit(history[k].in1 = "1" \/ history[k].in2 = "1")

\* C6: every completed call FANOUT(input) returned two copies of the input
\* bit: FANOUT('0') = '00' and FANOUT('1') = '11'.
C6_FanoutCopies ==
    \A k \in Entries("FANOUT") :
        history[k].out = history[k].in1 \o history[k].in1

\* C7: the output of a gate function is deterministic: whenever the simulator
\* is about to measure, the measured qubit has the same value in every basis
\* state of the support, and any two completed calls of the same function
\* with the same inputs returned the same output.
C7_Deterministic ==
    /\ (pc = "run" /\ ip <= Len(qc) /\ qc[ip].op = "measure")
          => \A s, t \in state : s[qc[ip].a] = t[qc[ip].a]
    /\ \A j, k \in DOMAIN history :
          (/\ history[j].fn = history[k].fn
           /\ history[j].in1 = history[k].in1
           /\ history[j].in2 = history[k].in2)
          => history[j].out = history[k].out

C7_Witness ==
    \E j, k \in DOMAIN history :
        /\ j < k
        /\ history[j].fn = "XOR" /\ history[k].fn = "XOR"
        /\ history[j].in1 = "0" /\ history[k].in1 = "0"
        /\ history[j].in2 = "1" /\ history[k].in2 = "1"
        /\ history[j].out = "1" /\ history[k].out = "1"

RECURSIVE Outcomes(_, _, _)
\* the classical registers a run of the instructions ins can end with, from
\* support S and classical register cr
Outcomes(ins, S, cr) ==
    IF ins = <<>> THEN {cr}
    ELSE LET i == Head(ins) IN
         IF i.op = "measure"
         THEN UNION {Outcomes(Tail(ins), {t \in S : t[i.a] = s[i.a]},
                              [cr EXCEPT ![i.cb] = s[i.a]]) : s \in S}
         ELSE Outcomes(Tail(ins), ApplyGate(S, i), cr)

\* the outputs the call f(a, b) can give when nothing was run before it
AloneOutputs(f, a, b) ==
    LET r == Body(f, a, b) IN
    {BitStr(cr, r.nc) : cr \in Outcomes(r.circ.ins, ZeroState(r.nq), ZeroCreg(r.nc))}

\* C8: every run starts from all qubits |0> and a zero classical register,
\* and the result of a call that ran, wherever it stands in the sequence of
\* calls, is a result the same call gives when nothing was run before it.
C8_FreshRun ==
    /\ (pc = "run" /\ ip = 1) => (state = ZeroState(nq) /\ creg = ZeroCreg(nc))
    /\ \A k \in DOMAIN history :
          Ran(history[k]) =>
             history[k].out \in AloneOutputs(history[k].fn, history[k].in1, history[k].in2)

\* a NOT('0') that ran right after a NOT('0') left its qubit in |1>
C8_Witness ==
    /\ Len(history) >= 2
    /\ history[1].fn = "NOT" /\ history[1].in1 = "0" /\ history[1].out = "1"
    /\ history[2].fn = "NOT" /\ history[2].in1 = "0" /\ history[2].out = "1"

\* C10: the optimizer loop terminates in a terminal state and hands the
\* caller a result: once the minimize cell is over, the call has returned
\* (converged, or budget exhausted and reported as "did not converge") and
\* `result` is bound to the best parameters and value; it has not aborted
\* the caller with an exception.
C10_MinimizeReturns ==
    qcell > MinimizeCell =>
        /\ outcome = "returned"
        /\ optimizer \in {"Converged", "BudgetExhausted"}
        /\ "result" \in ns

\* C13: in the logic-gate circuits (x and cx on an all-|0> start) the state
\* vector is, before and after every gate application and up to the
\* measurement, exactly one computational basis state of the register, which
\* therefore carries amplitude 1: the norm is 1.
C13_UnitBasisState ==
    /\ Cardinality(state) = 1
    /\ state \subseteq BasisStates(nq)

\* a cx has just been applied with its control set
C13_Witness ==
    /\ pc = "run" /\ ip > 1
    /\ qc[ip - 1].op = "cx"
    /\ state = {[q \in 0 .. nq - 1 |-> 1]}

\* C11: every call of evaluate_circuit made by the optimizer returns a scalar
\* (the expectation value of Hc): it raises nothing and its value is a number.
C11_EvaluateReturnsScalar ==
    fval.called => (fval.raised = "" /\ fval.value # "None")

\* C12: the optimization started from the random (beta, gamma) drawn by the
\* notebook ends with `result` bound and an expectation value within 1e-3 of
\* -1.0 (funMilli is the value in thousandths).
C12_ConvergesToMinusOne ==
    qcell > MinimizeCell => (result.bound /\ result.funMilli \in -1001 .. -999)

\* C15: the circuit create_circuit returns is circuit_init first, then the
\* evolution blocks of step 0, step 1, ... step p-1 in increasing order, two
\* per step, none dropped or duplicated.
C15_BlocksInOrder ==
    lastCircuit.called =>
        /\ lastCircuit.raised = ""
        /\ Len(lastCircuit.blocks) = 1 + 2 * p
        /\ lastCircuit.blocks[1] = InitBlock
        /\ \A k \in 2 .. Len(lastCircuit.blocks) :
              lastCircuit.blocks[k].step = (k - 2) \div 2

\* C16: in the circuit create_circuit builds for the vector the optimizer
\* evaluates (first p entries beta, last p entries gamma), step i evolves
\* the mixing Hamiltonian Hm with angle beta_i and the cost Hamiltonian Hc
\* with angle gamma_i.
C16_MixingBetaCostGamma ==
    lastCircuit.called =>
        /\ lastCircuit.raised = ""
        /\ \A k \in 2 .. Len(lastCircuit.blocks) :
              LET b == lastCircuit.blocks[k] IN
              /\ b.h = "Hm" => (b.arg = "beta" /\ b.angle = xk[b.step + 1])
              /\ b.h = "Hc" => (b.arg = "gamma" /\ b.angle = xk[p + b.step + 1])

\* C17: circuit_init is a circuit over n_qubits qubits that holds a Hadamard
\* on every one of the qubits and nothing else.
C17_HadamardOnEveryQubit ==
    qcell > InitCell =>
        /\ circuit_init.bound
        /\ circuit_init.nq = n_qubits
        /\ Len(circuit_init.ins) = n_qubits
        /\ {circuit_init.ins[k] : k \in DOMAIN circuit_init.ins}
              = {Instr("h", q, -1, -1, -1) : q \in 0 .. n_qubits - 1}

\* Z on qubits 0 and 1
ZZ == Pauli([q \in 0 .. n_qubits - 1 |-> 1], Zeros(n_qubits))

\* C18: once the Hc cell has run, Hc is bound and its only term with a
\* nonzero coefficient is -1 times the Pauli string with Z on qubits 0 and 1;
\* every other term (the i = j terms, the identity seed) has coefficient 0.
C18_HcIsMinusZZ ==
    qcell > HcCell =>
        /\ "Hc" \in ns
        /\ {ham.Hc[k] : k \in {l \in DOMAIN ham.Hc : ham.Hc[l].coeff # 0}}
              = {Term(-1, ZZ)}

RECURSIVE TotalCoeff(_, _)
\* the sum of the coefficients the terms give the Pauli string P
TotalCoeff(terms, P) ==
    IF terms = <<>> THEN 0
    ELSE (IF Head(terms).pauli = P THEN Head(terms).coeff ELSE 0)
         + TotalCoeff(Tail(terms), P)

\* X on qubit k of n qubits, identity elsewhere
XOn(n, k) == Pauli(Zeros(n), [q \in 0 .. n - 1 |-> IF q = k THEN 1 ELSE 0])

InRange == 0 <= pidx /\ pidx < pn

\* C14: a call of pauli_x or pauli_z with a qubit index outside [0, n_qubits)
\* fails with an error reported to the caller (whatever the exception is
\* called): it returns no operator, on this or on any other qubit.
C14_OutOfRangeFails ==
    (pfn # "" /\ ~InRange) => (pres.raised # "" /\ pres.terms = <<>>)

\* C19: pauli_x(n_qubits, qubit_index, coeff) with 0 <= qubit_index < n_qubits
\* returns an operator whose every term with a nonzero coefficient is the
\* Pauli string with X on qubit_index and identity elsewhere (z-vector zero,
\* x-vector the unit vector at qubit_index), and whose coefficients on that
\* string add up to coeff.
C19_PauliXOperator ==
    (pfn = "pauli_x" /\ InRange) =>
        /\ pres.raised = ""
        /\ \A k \in DOMAIN pres.terms :
              pres.terms[k].coeff # 0 => pres.terms[k].pauli = XOn(pn, pidx)
        /\ TotalCoeff(pres.terms, XOn(pn, pidx)) = pcoeff

C19_Witness ==
    /\ pfn = "pauli_x"
    /\ pn = 3 /\ pidx = 1 /\ pcoeff = -1
    /\ \E k \in DOMAIN pres.terms :
          pres.terms[k] = Term(-1, Pauli([q \in 0 .. 2 |-> 0], [q \in 0 .. 2 |-> IF q = 1 THEN 1 ELSE 0]))

CallAny ==
    \E f \in GateNames :
        \E a \in Bits :
            \E b \in (IF f \in Unary THEN {NoArg} ELSE Bits) : Call(f, a, b)

vars == <<gvars, qvars, pvars>>

Init == GInit /\ QInit /\ PIdle

\* the logic-gates notebook
Next ==
    \/ (RunLogicCell /\ UNCHANGED <<qvars, pvars>>)
    \/ (CallAny /\ UNCHANGED <<qvars, pvars>>)
    \/ (SimStep /\ UNCHANGED <<qvars, pvars>>)
    \/ (Return /\ UNCHANGED <<qvars, pvars>>)

Spec == Init /\ [][Next]_vars

\* the QAOA notebook
QaoaNext ==
    \/ (RunQaoaCell /\ UNCHANGED <<gvars, pvars>>)
    \/ (RunParamCell /\ UNCHANGED <<gvars, pvars>>)
    \/ (MinimizeStart /\ UNCHANGED <<gvars, pvars>>)
    \/ (MinimizeEvaluate /\ UNCHANGED <<gvars, pvars>>)
    \/ (ObjectiveDone /\ UNCHANGED <<gvars, pvars>>)

SpecQaoa == Init /\ [][QaoaNext]_vars

\* one call of pauli_x or pauli_z in the kernel of the QAOA notebook
PauliCallInit == GInit /\ QInit /\ PauliInit

PauliNext ==
    \/ (CallPauliX /\ UNCHANGED <<gvars, qvars>>)
    \/ (CallPauliZ /\ UNCHANGED <<gvars, qvars>>)

SpecPauli == PauliCallInit /\ [][PauliNext]_vars
====
